---- MODULE Spec2Model ----
(***************************************************************************)
(* The streaming XML parser framework of Diatomic.                         *)
(*                                                                         *)
(* Two drafts of the engine live in the repository and both are modelled:  *)
(*   - XMLParserController / SimpleXMLParserController driving the         *)
(*     BaseParserState family (onOpenTag / onText / onCloseTag);           *)
(*   - RSSParserTransformer driving the XMLParseEventHandlers family       *)
(*     (opentagHandler / textHandler / closetagHandler) of Utilities.ts.   *)
(* The variable cfg, fixed by Init, says which driver and which grammar a  *)
(* behaviour is about.                                                     *)
(*                                                                         *)
(* A parser state object is a record (a frame).  The objects reachable     *)
(* from the controller's current state through parent / returnState form a *)
(* chain, and the controller's state field is modelled as that chain: its  *)
(* head is the current state object, its tail is the parent's chain, and   *)
(* the empty chain is undefined.  Strings that are inspected character by  *)
(* character (captured text) are sequences of one-character strings.       *)
(*                                                                         *)
(* The sax handlers are registered unbound in the controller's constructor;*)
(* they are modelled as methods of the controller, as they are written.    *)
(***************************************************************************)
EXTENDS Integers, Sequences, FiniteSets, TLC

VARIABLES
    cfg,              \* which driver and grammar this behaviour is about
    tags,             \* the tokenizer's stack of open element names
    ended,            \* end-of-input has been signalled
    handlers,         \* the tokenizer's registered event handlers
    preinit,          \* XMLParserController._preinitState
    state,            \* the controller's current parser state (a chain)
    emitDataHandler,  \* an emit sink is registered
    errorHandler,     \* an error sink is registered
    emitted,          \* what the emit sink received, in order
    errors,           \* what the error sink received, in order
    thrown,           \* exceptions that escaped feed / transform, in order
    nEv,              \* number of tokenizer events delivered so far
    produced,         \* history: emit objects carried by returned transitions
    last,             \* history: the last event and what the state's handler returned
    peer              \* the other driver instances of the process (none, or one)

vars == <<cfg, tags, ended, handlers, preinit, state, emitDataHandler,
          errorHandler, emitted, errors, thrown, nEv, produced, last, peer>>

(***************************************************************************)
(* Bounds.                                                                 *)
(***************************************************************************)
MaxEvents == 6
MaxDepth == 3
MaxParserErrors == 1
MaxText == 3
MaxPairEvents == 4

(***************************************************************************)
(* JavaScript values that can be emitted.                                  *)
(***************************************************************************)
Undefined == [k |-> "undefined", v |-> <<>>]
Str(s) == [k |-> "string", v |-> s]
Num(n) == [k |-> "number", v |-> <<n>>]
NaN == [k |-> "NaN", v |-> <<>>]
Obj(field, value) == [k |-> "object", v |-> <<field, value>>]

\* ToBoolean: what `if (x)` and `x && y` test.
Truthy(x) ==
    CASE x.k = "undefined" -> FALSE
      [] x.k = "NaN" -> FALSE
      [] x.k = "string" -> x.v # <<>>
      [] x.k = "number" -> x.v # <<0>>
      [] OTHER -> TRUE

Digits == <<"0", "1", "2", "3", "4", "5", "6", "7", "8", "9">>
IsDigit(c) == \E i \in 1..10 : Digits[i] = c
DigitVal(c) == (CHOOSE i \in 1..10 : Digits[i] = c) - 1

RECURSIVE DigitPrefixLen(_)
DigitPrefixLen(s) ==
    IF s = <<>> \/ ~IsDigit(Head(s)) THEN 0 ELSE 1 + DigitPrefixLen(Tail(s))

RECURSIVE DigitsValue(_, _)
DigitsValue(s, acc) ==
    IF s = <<>> THEN acc ELSE DigitsValue(Tail(s), 10 * acc + DigitVal(Head(s)))

\* parseInt(text): the value of the longest decimal-digit prefix, NaN when
\* there is none.
parseInt(s) ==
    LET n == DigitPrefixLen(s)
    IN  IF n = 0 THEN NaN ELSE Num(DigitsValue(SubSeq(s, 1, n), 0))

\* A caller-supplied emit-object constructor: how the captured text is
\* converted (conv) and what the converted value is wrapped in (wrap, key).
Transform(wrap, key, conv) == [wrap |-> wrap, key |-> key, conv |-> conv]
NoTransform == Transform("none", "", "none")

Convert(conv, text) ==
    CASE conv = "parseInt" -> parseInt(text)
      [] conv = "Date" -> [k |-> "Date", v |-> text]
      [] OTHER -> Str(text)

\* createChannelDataFeedObject(key, value) is { channel: { [key]: value } }.
createChannelDataFeedObject(key, value) == Obj("channel", Obj(key, value))

ApplyTransform(fn, text) ==
    CASE fn.wrap = "channel" -> createChannelDataFeedObject(fn.key, Convert(fn.conv, text))
      [] fn.wrap = "field" -> Obj(fn.key, Convert(fn.conv, text))
      [] OTHER -> Convert(fn.conv, text)

\* An attribute map (Map<string, SaxesAttributeNS>): a sequence of
\* <<name, value>> entries.
NoAttributes == <<>>

\* An open tag as the tokenizer reports it.
Tag(name, attributes) == [name |-> name, attributes |-> attributes]

\* { value: value, attributes: attributes }
Attributed(value, attributes) ==
    [k |-> "object", v |-> <<"value", value, "attributes", attributes>>]

\* An EmitObjectConstructor<string, EmitObject>: (data, attributes) => EmitObject.
\* The wrap "attributed" is (text, attributes) =>
\*   attributes.size ? { [key]: { value: text, attributes } } : { [key]: text }.
emitObjectTextConstructor(fn, text, attributes) ==
    CASE fn.wrap = "attributed" /\ attributes # NoAttributes ->
           Obj(fn.key, Attributed(Convert(fn.conv, text), attributes))
      [] fn.wrap = "attributed" -> Obj(fn.key, Convert(fn.conv, text))
      [] OTHER -> ApplyTransform(fn, text)

(***************************************************************************)
(* Parser state objects and handler results.                               *)
(***************************************************************************)
Frame(cls, tag) ==
    [cls |-> cls, tag |-> tag, text |-> <<>>, begun |-> FALSE,
     policy |-> "Ignore", table |-> "none", skip |-> 0, fed |-> <<>>,
     fn |-> NoTransform, attributes |-> NoAttributes, unexpected |-> FALSE]

\* BaseParserState's constructor: openTag, and attributes copied from it.
BaseParserState(cls, tag) ==
    [Frame(cls, tag.name) EXCEPT !.attributes = tag.attributes]

\* A handler returned nothing; self is the chain after what it mutated.
Void(self) ==
    [ret |-> "void", self |-> self, newState |-> <<>>,
     emitObject |-> Undefined, err |-> "none"]

\* new StateTransition(newState, emitObject)
StateTransition(self, newState, emitObject) ==
    [ret |-> "transition", self |-> self, newState |-> newState,
     emitObject |-> emitObject, err |-> "none"]

\* throw new <err>(...)
Throw(self, err) ==
    [ret |-> "throw", self |-> self, newState |-> <<>>,
     emitObject |-> Undefined, err |-> err]

\* No handler was invoked at all.
NoCall ==
    [ret |-> "nocall", self |-> <<>>, newState |-> <<>>,
     emitObject |-> Undefined, err |-> "none"]

(***************************************************************************)
(* The BaseParserState family.                                             *)
(***************************************************************************)
\* BaseParserState.onOpenTag and onText: empty bodies.
BaseParserState_onOpenTag(st, tag) == Void(st)

\* Mutant: the default text handler rejects text.
BaseParserState_onText_Rejects(st, text) == Throw(st, "UnexpectedTextError")

BaseParserState_onText(st, text) == Void(st)

NewTextParserState(tag, fn, parent) ==
    <<[BaseParserState("TextParserState", tag) EXCEPT !.fn = fn]>> \o parent

\* Mutant: the fragment replaces the text captured so far.
TextParserState_onText_Overwrites(st, text) ==
    Void([st EXCEPT ![1].text = text])

TextParserState_onText(st, text) ==
    Void([st EXCEPT ![1].text = @ \o text])

\* Mutant: the emit-object constructor is given an empty attribute map.
TextParserState_onCloseTag_NoAttributes(st, name) ==
    IF Tail(st) # <<>>
    THEN StateTransition(st, Tail(st),
             emitObjectTextConstructor(Head(st).fn, Head(st).text, NoAttributes))
    ELSE Void(st)

TextParserState_onCloseTag(st, name) ==
    IF Tail(st) # <<>>
    THEN StateTransition(st, Tail(st),
             emitObjectTextConstructor(Head(st).fn, Head(st).text, Head(st).attributes))
    ELSE Void(st)

\* Collector.onFeed of the state that owns a collector: it keeps what it is fed.
Collector_onFeed(owner, data) ==
    IF owner = <<>> THEN owner ELSE [owner EXCEPT ![1].fed = Append(@, data)]

\* The collector handed to a ReturnTextParserState is its parent.
NewReturnTextParserState(tag, parent) ==
    <<BaseParserState("ReturnTextParserState", tag)>> \o parent

ReturnTextParserState_onText(st, text) ==
    Void([st EXCEPT ![1].text = @ \o text])

ReturnTextParserState_onCloseTag(st, name) ==
    Void(<<Head(st)>> \o Collector_onFeed(Tail(st), Head(st).text))

(***************************************************************************)
(* GroupParserState of the BaseParserState family.  Its class is not among *)
(* the sources (only its callers are); it follows the Group State of the   *)
(* specification.  It is constructed from its owning open tag, which has   *)
(* therefore been seen.                                                    *)
(***************************************************************************)
\* The caller's wiring of the controller: a document element <doc> whose
\* children <s> and <n> are emitted as { s: text } (with the attributes of <s>,
\* if it has any) and as parseInt(text) and whose child <r> is fed to the
\* group's collector.
TableNames(table) ==
    CASE table = "DocTable" -> {"s", "n", "r"}
      [] table = "GroupHarnessTable" -> {"a"}
      [] table = "buildInitialState" -> {"channel"}
      [] table = "buildChannelElementState" ->
           {"title", "link", "description", "language", "copyright", "category",
            "pubDate", "lastBuildDate", "ttl"}
      [] OTHER -> {}

NewGroupParserState(tag, table, policy, parent) ==
    <<[BaseParserState("GroupParserState", tag) EXCEPT
          !.table = table, !.policy = policy, !.begun = TRUE]>> \o parent

\* buildInitialState and buildChannelElementState: a group over a table built
\* for the call; no unexpected-tag policy is passed, so the class's default
\* (the configuration's policy) applies.
buildInitialState(tag, policy, parent) ==
    NewGroupParserState(tag, "buildInitialState", policy, parent)

buildChannelElementState(tag, policy, parent) ==
    NewGroupParserState(tag, "buildChannelElementState", policy, parent)

\* The (text) => ({ [name]: ... }) of a buildChannelElementState table entry.
buildChannelElementState_entry(name) ==
    CASE name = "ttl" -> Transform("field", name, "parseInt")
      [] name \in {"pubDate", "lastBuildDate"} -> Transform("field", name, "Date")
      [] OTHER -> Transform("field", name, "string")

\* TextParserState.parserStateFactory(fn) and the factory of a collector-fed field.
ParserStateFactory(table, tag, parent) ==
    CASE table = "buildInitialState" ->
           buildChannelElementState(tag, Head(parent).policy, parent)
      [] table = "buildChannelElementState" ->
           NewTextParserState(tag, buildChannelElementState_entry(tag.name), parent)
      [] tag.name = "s" ->
           NewTextParserState(tag, Transform("attributed", tag.name, "string"), parent)
      [] tag.name = "n" ->
           NewTextParserState(tag, Transform("none", "", "parseInt"), parent)
      [] OTHER -> NewReturnTextParserState(tag, parent)

GroupParserState_unexpectedTag(st, tag) ==
    CASE Head(st).policy = "Error" -> Throw(st, "UnexpectedXMLTagError")
      [] OTHER ->
           LET self == [st EXCEPT ![1].skip = 1]
           IN  StateTransition(self, self, Undefined)

GroupParserState_onOpenTag(st, tag) ==
    LET this == Head(st)
    IN  IF this.skip > 0 THEN Void([st EXCEPT ![1].skip = @ + 1])
        ELSE IF ~this.begun
        THEN IF tag.name = this.tag
             THEN LET self == [st EXCEPT ![1].begun = TRUE]
                  IN  StateTransition(self, self, Undefined)
             ELSE GroupParserState_unexpectedTag(st, tag)
        ELSE IF tag.name \in TableNames(this.table)
        THEN StateTransition(st, ParserStateFactory(this.table, tag, st), Undefined)
        ELSE GroupParserState_unexpectedTag(st, tag)

GroupParserState_onCloseTag(st, name) ==
    LET this == Head(st)
    IN  IF this.skip > 0 THEN Void([st EXCEPT ![1].skip = @ - 1])
        ELSE IF name # this.tag THEN Throw(st, "InvalidXMLCloseTagError")
        ELSE IF Tail(st) # <<>> THEN StateTransition(st, Tail(st), Undefined)
        ELSE Void(st)

\* Virtual dispatch on the class of the current state object.
onOpenTag(st, tag) ==
    CASE Head(st).cls = "GroupParserState" -> GroupParserState_onOpenTag(st, tag)
      [] OTHER -> BaseParserState_onOpenTag(st, tag)

onText(st, text) ==
    CASE Head(st).cls = "TextParserState" -> TextParserState_onText(st, text)
      [] Head(st).cls = "ReturnTextParserState" -> ReturnTextParserState_onText(st, text)
      [] OTHER -> BaseParserState_onText(st, text)

onCloseTag(st, name) ==
    CASE Head(st).cls = "TextParserState" -> TextParserState_onCloseTag(st, name)
      [] Head(st).cls = "ReturnTextParserState" -> ReturnTextParserState_onCloseTag(st, name)
      [] OTHER -> GroupParserState_onCloseTag(st, name)

(***************************************************************************)
(* The XMLParseEventHandlers family of Utilities.ts.                       *)
(***************************************************************************)
NewSimpleTextParserState(name, returnState, fn) ==
    <<[Frame("SimpleTextParserState", name) EXCEPT !.fn = fn]>> \o returnState

AbstractTextTagParserState_opentagHandler(st, name) ==
    Throw(st, "UnexpectedXMLTagError")

AbstractTextTagParserState_textHandler(st, text) ==
    Void([st EXCEPT ![1].text = @ \o text])

SimpleTextParserState_emitObject(this) == ApplyTransform(this.fn, this.text)

AbstractTextTagParserState_closetagHandler(st, name) ==
    StateTransition(st, Tail(st), SimpleTextParserState_emitObject(Head(st)))

NewRootElementState == <<Frame("RootElementState", "")>>

\* new ItemElementState(previousState): super("item"), beginParse = true,
\* itemData = {}.  No statement of the sources constructs one.
NewItemElementState(previousState) ==
    <<[Frame("ItemElementState", "item") EXCEPT !.begun = TRUE]>> \o previousState

\* ItemElementState.transitionFinishedState: back to previousState with
\* { item: itemData }.
ItemElementState_transitionFinishedState(st) ==
    StateTransition(st, Tail(st), Obj("item", [k |-> "object", v |-> Head(st).fed]))

\* new ChannelElementState(): super("channel"), the policy defaults to Ignore.
NewChannelElementState == <<Frame("ChannelElementState", "channel")>>

\* Mutant: the constructor does not look at the policy.
SimpleGroupParserState_constructor_Unchecked(name, table, policy, unexpected) ==
    Void(<<[Frame("SimpleGroupParserState", name) EXCEPT
              !.table = table, !.policy = policy, !.unexpected = unexpected]>>)

\* SimpleGroupParserState's constructor; unexpected says whether an
\* unexpectedTagTransitionFunction is passed.  It returns the new object
\* (self) or throws.
SimpleGroupParserState_constructor(name, table, policy, unexpected) ==
    IF policy = "Parse" /\ ~unexpected
    THEN Throw(<<>>, "Error: unexpectedTagTransitionFunction cannot be undefined")
    ELSE Void(<<[Frame("SimpleGroupParserState", name) EXCEPT
                   !.table = table, !.policy = policy, !.unexpected = unexpected]>>)

\* new SimpleGroupParserState(tagName, table, policy, finished, unexpected),
\* as the caller of the group grammar writes it: with both functions.
NewSimpleGroupParserState(name, table, policy) ==
    SimpleGroupParserState_constructor(name, table, policy, TRUE).self

ChannelDataKeys ==
    {"title", "link", "description", "language", "copyright", "managingEditor",
     "webMaster", "pubDate", "lastBuildDate", "category", "generator", "cloud", "ttl"}

\* name contains key as a substring, for the names the model uses.
ContainsKey(name, key) ==
    name = key \/ <<name, key>> \in {<<"subtitle", "title">>, <<"atom:link", "link">>}

\* The regular expression is not anchored: it tests for a substring.
isChannelDataKey(name) == \E key \in ChannelDataKeys : ContainsKey(name, key)

isAllowedTag(st, name) ==
    CASE Head(st).cls = "ChannelElementState" -> isChannelDataKey(name)
      [] OTHER -> name \in TableNames(Head(st).table)

ChannelElementState_transitionExpectedTag(st, name) ==
    CASE name = "ttl" ->
           StateTransition(st, NewSimpleTextParserState(name, st, Transform("channel", name, "parseInt")), Undefined)
      [] name \in {"lastBuildDate", "pubDate"} ->
           StateTransition(st, NewSimpleTextParserState(name, st, Transform("channel", name, "Date")), Undefined)
      [] OTHER ->
           StateTransition(st, NewSimpleTextParserState(name, st, Transform("channel", name, "string")), Undefined)

\* The caller's table entry: capture the child's text and emit it as it is.
SimpleGroupParserState_transitionExpectedTag(st, name) ==
    StateTransition(st, NewSimpleTextParserState(name, st, Transform("none", "", "string")), Undefined)

transitionExpectedTag(st, name) ==
    CASE Head(st).cls = "ChannelElementState" -> ChannelElementState_transitionExpectedTag(st, name)
      [] OTHER -> SimpleGroupParserState_transitionExpectedTag(st, name)

\* The caller's unexpectedTagTransitionFunction(currentState, tag): capture the
\* unknown tag's text under its own name.
unexpectedTagTransitionFunction(st, name) ==
    StateTransition(st, NewSimpleTextParserState(name, st, Transform("field", name, "string")), Undefined)

\* ChannelElementState does not implement the method.
transitionUnexpectedTag(st, name) ==
    CASE Head(st).cls = "ChannelElementState" -> Throw(st, "TypeError")
      [] Head(st).unexpected -> unexpectedTagTransitionFunction(st, name)
      [] OTHER -> Throw(st, "Error: transitionUnexpectedTag called without")

\* Mutant: the finished channel state stays current.
transitionFinishedState_NoReset(st) ==
    StateTransition(st, st, Undefined)

\* ChannelElementState returns to a new RootElementState; the caller's
\* transitionFinishedStateFunction returns to a new, not yet begun group.
transitionFinishedState(st) ==
    CASE Head(st).cls = "ChannelElementState" ->
           StateTransition(st, NewRootElementState, Undefined)
      [] OTHER ->
           StateTransition(st,
               SimpleGroupParserState_constructor(Head(st).tag, Head(st).table,
                   Head(st).policy, Head(st).unexpected).self,
               Undefined)

\* Mutant: the Error policy swallows the tag as Ignore does.
handleUnexpectedTag_ErrorSwallowed(st, name) ==
    CASE Head(st).policy = "Parse" -> transitionUnexpectedTag(st, name)
      [] OTHER -> StateTransition(st, st, Undefined)

handleUnexpectedTag(st, name) ==
    CASE Head(st).policy = "Error" -> Throw(st, "UnexpectedXMLTagError")
      [] Head(st).policy = "Ignore" -> StateTransition(st, st, Undefined)
      [] OTHER -> transitionUnexpectedTag(st, name)

\* Mutant: beginning the parse empties the state's transition table.
handleOpenTagBeforeBegin_DropsTable(st, name) ==
    IF name = Head(st).tag
    THEN LET self == [st EXCEPT ![1].begun = TRUE, ![1].table = "none"]
         IN  StateTransition(self, self, Undefined)
    ELSE handleUnexpectedTag(st, name)

\* Mutant: any open tag marks the state as begun.
handleOpenTagBeforeBegin_AnyTagBegins(st, name) ==
    LET self == [st EXCEPT ![1].begun = TRUE]
    IN  StateTransition(self, self, Undefined)

handleOpenTagBeforeBegin(st, name) ==
    IF name = Head(st).tag
    THEN LET self == [st EXCEPT ![1].begun = TRUE]
         IN  StateTransition(self, self, Undefined)
    ELSE handleUnexpectedTag(st, name)

handleOpenTagAfterBegin(st, name) ==
    IF isAllowedTag(st, name)
    THEN transitionExpectedTag(st, name)
    ELSE handleUnexpectedTag(st, name)

\* Once beginParse is set the method falls off its end: it returns nothing.
AbstractGroupTagParserState_opentagHandler(st, name) ==
    IF ~Head(st).begun
    THEN handleOpenTagBeforeBegin(st, name)
    ELSE Void(st)

\* Mutant: under the Ignore policy a mismatched close tag is swallowed.
AbstractGroupTagParserState_closetagHandler_SoftMismatch(st, name) ==
    IF name # Head(st).tag
    THEN IF Head(st).policy = "Ignore"
         THEN StateTransition(st, st, Undefined)
         ELSE Throw(st, "InvalidXMLCloseTagError")
    ELSE transitionFinishedState(st)

AbstractGroupTagParserState_closetagHandler(st, name) ==
    IF name # Head(st).tag
    THEN Throw(st, "InvalidXMLCloseTagError")
    ELSE transitionFinishedState(st)

RootElementState_opentagHandler(st, name) ==
    IF name # "rss"
    THEN Throw(st, "MissingXMLTagError")
    ELSE StateTransition(st, NewChannelElementState, Undefined)

IsGroupCls(cls) == cls \in {"ChannelElementState", "SimpleGroupParserState"}

\* Which of the three optional handlers an object of the class has.
HasHandler(this, type) ==
    CASE this.cls = "RootElementState" -> type = "opentag"
      [] IsGroupCls(this.cls) -> type \in {"opentag", "closetag"}
      [] OTHER -> TRUE

opentagHandler(st, name) ==
    CASE Head(st).cls = "RootElementState" -> RootElementState_opentagHandler(st, name)
      [] IsGroupCls(Head(st).cls) -> AbstractGroupTagParserState_opentagHandler(st, name)
      [] OTHER -> AbstractTextTagParserState_opentagHandler(st, name)

textHandler(st, text) == AbstractTextTagParserState_textHandler(st, text)

closetagHandler(st, name) ==
    CASE IsGroupCls(Head(st).cls) -> AbstractGroupTagParserState_closetagHandler(st, name)
      [] OTHER -> AbstractTextTagParserState_closetagHandler(st, name)

(***************************************************************************)
(* Configurations, tokenizer events.                                       *)
(***************************************************************************)
Configs ==
    [driver : {"XMLParserController"}, grammar : {"doc"}, policy : {"Ignore", "Error"}]
    \cup [driver : {"RSSParserTransformer"}, grammar : {"rss"}, policy : {"Ignore"}]
    \cup [driver : {"RSSParserTransformer"}, grammar : {"group"},
          policy : {"Ignore", "Error", "Parse"}]

\* The second RSS grammar: a SimpleXMLParserController("rss", ...) over
\* buildInitialState.
SyndicationConfigs ==
    [driver : {"XMLParserController"}, grammar : {"syndication"}, policy : {"Ignore", "Error"}]

\* The element names the tokenizer reports for a configuration's documents.
Names(c) ==
    CASE c.grammar = "doc" -> {"doc", "s", "n", "r"}
      [] c.grammar = "rss" -> {"rss", "channel", "title"}
      [] c.grammar = "syndication" -> {"rss", "channel", "ttl", "item"}
      [] c.grammar = "either" -> {"rss", "channel", "title", "item"}
      [] OTHER -> {"g", "a", "x"}

Fragments == {<<"0">>, <<"a">>}

Event(type, name, text) ==
    [type |-> type, name |-> name, text |-> text, attributes |-> NoAttributes]

OpenTagEvent(name, attributes) ==
    [Event("opentag", name, <<>>) EXCEPT !.attributes = attributes]

\* The attribute maps the tokenizer reports for an element of the documents.
AttributeMaps(c, name) ==
    IF name \in {"s", "x"}
    THEN {NoAttributes, << <<"lang", "en">> >>}
    ELSE {NoAttributes}
NoEvent == Event("none", "", <<>>)

NoHandlers == [opentag |-> "none", text |-> "none", closetag |-> "none", error |-> "none"]

(***************************************************************************)
(* XMLParserController and SimpleXMLParserController.  A controller is the *)
(* record of its fields; every method maps the record to the record after  *)
(* the call.                                                               *)
(***************************************************************************)
\* SimpleXMLParserController.firstTag, as the caller sets it.
firstTag(conf) == IF conf.grammar = "syndication" THEN "rss" ELSE "doc"

isFirstTag(conf, tag) == tag.name = firstTag(conf)

\* The injected initialStateConstructor: new (openTag), without a parent.
initialStateConstructor(conf, tag) ==
    IF conf.grammar = "syndication"
    THEN buildInitialState(tag, conf.policy, <<>>)
    ELSE NewGroupParserState(tag, "DocTable", conf.policy, <<>>)

XMLParserController_constructor(conf) ==
    [cfg |-> conf, preinit |-> TRUE, state |-> <<>>,
     handlers |-> [NoHandlers EXCEPT !.error = "saxErrorHandler",
                                     !.opentag = "saxPreInitOpenTagHandler"],
     emitDataHandler |-> FALSE, errorHandler |-> FALSE,
     emitted |-> <<>>, errors |-> <<>>, thrown |-> <<>>, nEv |-> 0]

\* An exception thrown by a state's handler is caught nowhere: it leaves the
\* sax handler, the tokenizer's write and feed.
Propagate(c, r) == [c EXCEPT !.state = r.self, !.thrown = Append(@, r.err)]

\* Mutant: the delivered object is put in front of the earlier ones.
handleStateTransition_Reordering(c, r) ==
    IF r.ret = "transition"
    THEN [c EXCEPT !.state = r.newState,
                   !.emitted = IF Truthy(r.emitObject) /\ c.emitDataHandler
                               THEN <<[obj |-> r.emitObject, ev |-> c.nEv]>> \o @
                               ELSE @]
    ELSE [c EXCEPT !.state = r.self]

\* Mutant: the Transition's next state is not installed.
handleStateTransition_KeepsState(c, r) ==
    IF r.ret = "transition"
    THEN [c EXCEPT !.state = r.self,
                   !.emitted = IF Truthy(r.emitObject) /\ c.emitDataHandler
                               THEN Append(@, [obj |-> r.emitObject, ev |-> c.nEv])
                               ELSE @]
    ELSE [c EXCEPT !.state = r.self]

handleStateTransition(c, r) ==
    IF r.ret = "transition"
    THEN [c EXCEPT !.state = r.newState,
                   !.emitted = IF Truthy(r.emitObject) /\ c.emitDataHandler
                               THEN Append(@, [obj |-> r.emitObject, ev |-> c.nEv])
                               ELSE @]
    ELSE [c EXCEPT !.state = r.self]

\* Mutant: the error also throws the parse back to before the first tag.
saxErrorHandler_Resets(c, error) ==
    IF c.errorHandler
    THEN [c EXCEPT !.errors = Append(@, error), !.state = <<>>, !.preinit = TRUE]
    ELSE c

saxErrorHandler(c, error) ==
    IF c.errorHandler THEN [c EXCEPT !.errors = Append(@, error)] ELSE c

saxOpenTagHandler(c, tag) ==
    IF c.state # <<>>
    THEN LET r == onOpenTag(c.state, tag)
         IN  IF r.ret = "throw" THEN Propagate(c, r) ELSE handleStateTransition(c, r)
    ELSE c

saxTextHandler(c, text) ==
    IF c.state # <<>>
    THEN LET r == onText(c.state, text)
         IN  IF r.ret = "throw" THEN Propagate(c, r) ELSE handleStateTransition(c, r)
    ELSE c

\* Mutant: the close of the root element puts the controller back in pre-init.
saxCloseTagHandler_Rearms(c, name) ==
    IF c.state # <<>>
    THEN LET r == onCloseTag(c.state, name)
             d == IF r.ret = "throw" THEN Propagate(c, r) ELSE handleStateTransition(c, r)
         IN  IF name = firstTag(c.cfg) /\ Len(c.state) = 1
             THEN [d EXCEPT !.preinit = TRUE]
             ELSE d
    ELSE c

saxCloseTagHandler(c, name) ==
    IF c.state # <<>>
    THEN LET r == onCloseTag(c.state, name)
         IN  IF r.ret = "throw" THEN Propagate(c, r) ELSE handleStateTransition(c, r)
    ELSE c

\* Mutant: the root predicate is not consulted.
saxPreInitOpenTagHandler_AnyTag(c, tag) ==
    [c EXCEPT !.preinit = FALSE,
              !.state = initialStateConstructor(c.cfg, tag),
              !.handlers = [@ EXCEPT !.opentag = "saxOpenTagHandler",
                                     !.text = "saxTextHandler",
                                     !.closetag = "saxCloseTagHandler"]]

\* Mutant: the controller becomes active without an initial state.
saxPreInitOpenTagHandler_NoState(c, tag) ==
    IF isFirstTag(c.cfg, tag)
    THEN [c EXCEPT !.preinit = FALSE,
                   !.handlers = [@ EXCEPT !.opentag = "saxOpenTagHandler",
                                          !.text = "saxTextHandler",
                                          !.closetag = "saxCloseTagHandler"]]
    ELSE c

saxPreInitOpenTagHandler(c, tag) ==
    IF isFirstTag(c.cfg, tag)
    THEN [c EXCEPT !.preinit = FALSE,
                   !.state = initialStateConstructor(c.cfg, tag),
                   !.handlers = [@ EXCEPT !.opentag = "saxOpenTagHandler",
                                          !.text = "saxTextHandler",
                                          !.closetag = "saxCloseTagHandler"]]
    ELSE c

(***************************************************************************)
(* RSSParserTransformer (the draft over the XMLParseEventHandlers family). *)
(***************************************************************************)
\* The field initialisers.  Under the grammar "group" the same dispatch code
\* drives a caller-built SimpleGroupParserState instead of RootElementState.
RSSParserTransformer_constructor(conf) ==
    [cfg |-> conf, preinit |-> FALSE,
     state |-> IF conf.grammar = "rss"
               THEN NewRootElementState
               ELSE NewSimpleGroupParserState("g", "GroupHarnessTable", conf.policy),
     handlers |-> NoHandlers,
     emitDataHandler |-> TRUE, errorHandler |-> TRUE,
     emitted |-> <<>>, errors |-> <<>>, thrown |-> <<>>, nEv |-> 0]

\* start(controller) registers the four callbacks.
RSSParserTransformer_start(c) ==
    [c EXCEPT !.handlers = [opentag |-> "start_opentag", text |-> "start_text",
                            closetag |-> "start_closetag", error |-> "start_error"]]

RSSParserTransformer_handleStateTransition(c, r) ==
    IF r.ret = "transition"
    THEN [c EXCEPT !.state = r.newState,
                   !.emitted = IF Truthy(r.emitObject)
                               THEN Append(@, [obj |-> r.emitObject, ev |-> c.nEv])
                               ELSE @]
    ELSE [c EXCEPT !.state = r.self]

\* this._error = err; controller.error(err)
start_error(c, error) == [c EXCEPT !.errors = Append(@, error)]

start_opentag(c, name) ==
    IF HasHandler(Head(c.state), "opentag")
    THEN LET r == opentagHandler(c.state, name)
         IN  IF r.ret = "throw" THEN Propagate(c, r)
             ELSE RSSParserTransformer_handleStateTransition(c, r)
    ELSE c

start_closetag(c, name) ==
    IF HasHandler(Head(c.state), "closetag")
    THEN LET r == closetagHandler(c.state, name)
         IN  IF r.ret = "throw" THEN Propagate(c, r)
             ELSE RSSParserTransformer_handleStateTransition(c, r)
    ELSE c

start_text(c, text) ==
    IF HasHandler(Head(c.state), "text")
    THEN LET r == textHandler(c.state, text)
         IN  IF r.ret = "throw" THEN Propagate(c, r)
             ELSE RSSParserTransformer_handleStateTransition(c, r)
    ELSE c

(***************************************************************************)
(* The tokenizer calling the handler registered for an event.              *)
(***************************************************************************)
Dispatch(c, ev) ==
    LET h == CASE ev.type = "opentag" -> c.handlers.opentag
               [] ev.type = "text" -> c.handlers.text
               [] ev.type = "closetag" -> c.handlers.closetag
               [] OTHER -> c.handlers.error
    IN  CASE h = "saxPreInitOpenTagHandler" ->
                 saxPreInitOpenTagHandler(c, Tag(ev.name, ev.attributes))
          [] h = "saxOpenTagHandler" ->
                 saxOpenTagHandler(c, Tag(ev.name, ev.attributes))
          [] h = "saxTextHandler" -> saxTextHandler(c, ev.text)
          [] h = "saxCloseTagHandler" -> saxCloseTagHandler(c, ev.name)
          [] h = "saxErrorHandler" -> saxErrorHandler(c, ev.name)
          [] h = "start_opentag" -> start_opentag(c, ev.name)
          [] h = "start_text" -> start_text(c, ev.text)
          [] h = "start_closetag" -> start_closetag(c, ev.name)
          [] h = "start_error" -> start_error(c, ev.name)
          [] OTHER -> c

\* SaxesParser.write(chunk), for a chunk that holds the given events: the
\* handlers are called in order, and an exception thrown by a handler leaves
\* write, so that the events behind it in the chunk are never delivered.
RECURSIVE write(_, _)
write(c, chunk) ==
    IF chunk = <<>> THEN c
    ELSE LET d == Dispatch([c EXCEPT !.nEv = @ + 1], Head(chunk))
         IN  IF Len(d.thrown) > Len(c.thrown) THEN d ELSE write(d, Tail(chunk))

\* XMLParserController.feed(chunk)
feed(c, chunk) == write(c, chunk)

\* RSSParserTransformer.transform(chunk, controller)
transform(c, chunk) == write(c, chunk)

\* History only: what the current state's handler returned or threw for the
\* event, NoCall when the controller called no state handler.
Result(c, ev) ==
    LET h == CASE ev.type = "opentag" -> c.handlers.opentag
               [] ev.type = "text" -> c.handlers.text
               [] ev.type = "closetag" -> c.handlers.closetag
               [] OTHER -> "none"
    IN  CASE h = "saxOpenTagHandler" /\ c.state # <<>> ->
                 onOpenTag(c.state, Tag(ev.name, ev.attributes))
          [] h = "saxTextHandler" /\ c.state # <<>> -> onText(c.state, ev.text)
          [] h = "saxCloseTagHandler" /\ c.state # <<>> -> onCloseTag(c.state, ev.name)
          [] h = "start_opentag" /\ HasHandler(Head(c.state), "opentag") ->
               opentagHandler(c.state, ev.name)
          [] h = "start_text" /\ HasHandler(Head(c.state), "text") ->
               textHandler(c.state, ev.text)
          [] h = "start_closetag" /\ HasHandler(Head(c.state), "closetag") ->
               closetagHandler(c.state, ev.name)
          [] OTHER -> NoCall

(***************************************************************************)
(* The state machine.                                                      *)
(***************************************************************************)
This ==
    [cfg |-> cfg, preinit |-> preinit, state |-> state, handlers |-> handlers,
     emitDataHandler |-> emitDataHandler, errorHandler |-> errorHandler,
     emitted |-> emitted, errors |-> errors, thrown |-> thrown, nEv |-> nEv]

Becomes(c) ==
    /\ cfg' = c.cfg
    /\ preinit' = c.preinit
    /\ state' = c.state
    /\ handlers' = c.handlers
    /\ emitDataHandler' = c.emitDataHandler
    /\ errorHandler' = c.errorHandler
    /\ emitted' = c.emitted
    /\ errors' = c.errors
    /\ thrown' = c.thrown
    /\ nEv' = c.nEv

Construct(conf) ==
    IF conf.driver = "XMLParserController"
    THEN XMLParserController_constructor(conf)
    ELSE RSSParserTransformer_constructor(conf)

Init ==
    \E conf \in Configs :
        LET c == Construct(conf)
        IN  /\ cfg = c.cfg
            /\ preinit = c.preinit
            /\ state = c.state
            /\ handlers = c.handlers
            /\ emitDataHandler = c.emitDataHandler
            /\ errorHandler = c.errorHandler
            /\ emitted = c.emitted
            /\ errors = c.errors
            /\ thrown = c.thrown
            /\ nEv = c.nEv
            /\ tags = <<>>
            /\ ended = FALSE
            /\ produced = <<>>
            /\ last = [ev |-> NoEvent, r |-> NoCall]
            /\ peer = <<>>

\* A transform stream calls start before it hands over the first chunk, and a
\* stream that has been errored (an exception left transform, or
\* controller.error was called) is given no further chunk.
CanFeed ==
    /\ ~ended
    /\ nEv < MaxEvents
    /\ cfg.driver = "RSSParserTransformer" =>
          handlers # NoHandlers /\ thrown = <<>> /\ errors = <<>>

\* The driver instances of the process: this one, then the others.
Instances == <<This>> \o [k \in 1..Len(peer) |-> peer[k].c]

\* A parser that all instances would share hands the chunk's events to the
\* handlers of every one of them.
InstanceCall_SharedParser(instances, i, chunk) ==
    [k \in 1..Len(instances) |->
        IF instances[k].cfg.driver = "XMLParserController"
        THEN feed(instances[k], chunk)
        ELSE transform(instances[k], chunk)]

\* feed / transform of the i-th instance: the instance writes to the parser
\* it constructed, whose handlers are its own.
InstanceCall(instances, i, chunk) ==
    [instances EXCEPT ![i] = IF @.cfg.driver = "XMLParserController"
                             THEN feed(@, chunk)
                             ELSE transform(@, chunk)]

\* feed / transform called with a chunk that holds one tokenizer event.
Deliver(ev) ==
    LET r == Result(This, ev)
        after == InstanceCall(Instances, 1, <<ev>>)
    IN  /\ Becomes(after[1])
        /\ peer' = [k \in 1..Len(peer) |-> [peer[k] EXCEPT !.c = after[k + 1]]]
        /\ produced' = IF r.ret = "transition" /\ r.emitObject # Undefined
                       THEN Append(produced, [obj |-> r.emitObject, ev |-> nEv + 1])
                       ELSE produced
        /\ last' = [ev |-> ev, r |-> r]
        /\ ended' = ended

OpenTag ==
    \E name \in Names(cfg) : \E attributes \in AttributeMaps(cfg, name) :
        /\ CanFeed
        /\ Len(tags) < MaxDepth
        /\ tags' = Append(tags, name)
        /\ Deliver(OpenTagEvent(name, attributes))

Text ==
    \E text \in Fragments :
        /\ CanFeed
        /\ tags' = tags
        /\ Deliver(Event("text", "", text))

CloseTag ==
    /\ CanFeed
    /\ tags # <<>>
    /\ tags' = SubSeq(tags, 1, Len(tags) - 1)
    /\ Deliver(Event("closetag", tags[Len(tags)], <<>>))

ParserError ==
    /\ CanFeed
    /\ Len(errors) < MaxParserErrors
    /\ tags' = tags
    /\ Deliver(Event("error", "SaxesError", <<>>))

\* feed(null): the tokenizer is told the input has ended.  Neither driver
\* registers anything for the end of the input.
EndOfInput ==
    /\ ~ended
    /\ tags = <<>>
    /\ cfg.driver = "RSSParserTransformer" => thrown = <<>> /\ errors = <<>>
    /\ ended' = TRUE
    /\ last' = [ev |-> Event("end", "", <<>>), r |-> NoCall]
    /\ UNCHANGED <<cfg, tags, handlers, preinit, state, emitDataHandler,
                   errorHandler, emitted, errors, thrown, nEv, produced, peer>>

\* set onEmit(handler)
SetOnEmit ==
    /\ cfg.driver = "XMLParserController"
    /\ ~emitDataHandler
    /\ emitDataHandler' = TRUE
    /\ UNCHANGED <<cfg, tags, ended, handlers, preinit, state, errorHandler,
                   emitted, errors, thrown, nEv, produced, last, peer>>

\* set onError(handler)
SetOnError ==
    /\ cfg.driver = "XMLParserController"
    /\ ~errorHandler
    /\ errorHandler' = TRUE
    /\ UNCHANGED <<cfg, tags, ended, handlers, preinit, state, emitDataHandler,
                   emitted, errors, thrown, nEv, produced, last, peer>>

\* The transform stream calls start once, before any chunk.
Start ==
    /\ cfg.driver = "RSSParserTransformer"
    /\ handlers = NoHandlers
    /\ ~ended
    /\ Becomes(RSSParserTransformer_start(This))
    /\ UNCHANGED <<tags, ended, produced, last, peer>>

Next ==
    \/ OpenTag
    \/ Text
    \/ CloseTag
    \/ ParserError
    \/ EndOfInput
    \/ SetOnEmit
    \/ SetOnError
    \/ Start

Spec == Init /\ [][Next]_vars

(***************************************************************************)
(* Claims.                                                                 *)
(***************************************************************************)
Controller == cfg.driver = "XMLParserController"

\* The step delivers one tokenizer event (last' says which).
EventStep == nEv' = nEv + 1

TagEvent(ev) == ev.type \in {"opentag", "text", "closetag"}

\* The same state objects, whatever their fields hold.
SameObjects(a, b) ==
    /\ Len(a) = Len(b)
    /\ \A i \in 1..Len(a) : a[i].cls = b[i].cls /\ a[i].tag = b[i].tag

FullDispatch ==
    [opentag |-> "saxOpenTagHandler", text |-> "saxTextHandler",
     closetag |-> "saxCloseTagHandler", error |-> "saxErrorHandler"]

\* C1: the emit sink receives objects in the order of the events whose
\* handlers produced them: every delivered object is the one a handler
\* returned for the event during which it is delivered, and the delivering
\* events are strictly increasing (at most one object per event, nothing
\* reordered, nothing held back for a later event).
C1_EmissionOrder ==
    /\ \A i \in 1..Len(emitted) :
          /\ \E j \in 1..Len(produced) : produced[j] = emitted[i]
          /\ emitted[i].ev <= nEv
    /\ \A i, j \in 1..Len(emitted) : i < j => emitted[i].ev < emitted[j].ev

C1_Witness ==
    /\ Controller
    /\ Len(emitted) = 2
    /\ emitted[1].obj # emitted[2].obj

\* C2: in the active phase, a handler that returns a Transition makes the
\* controller's current state exactly the Transition's next state; a handler
\* that returns nothing leaves the current state object in place and nothing
\* is emitted.
C2_TransitionApplied ==
    [][(Controller /\ ~preinit /\ EventStep /\ TagEvent(last'.ev)) =>
          /\ last'.r.ret \in {"transition", "void", "throw"}
          /\ last'.r.ret = "transition" => state' = last'.r.newState
          /\ last'.r.ret = "void" =>
                /\ state' = last'.r.self
                /\ SameObjects(state', state)
                /\ emitted' = emitted]_vars

C2_Witness ==
    /\ Controller
    /\ ~preinit
    /\ last.ev.type = "closetag"
    /\ last.r.ret = "transition"
    /\ Head(last.r.self).text # <<>>
    /\ state = last.r.newState

\* C3 (as claimed): with an emit sink registered, every Transition that
\* carries an emitted object delivers that object to the sink exactly once,
\* whatever the value is (the integer 0, NaN and the empty string included).
C3_EveryEmitObjectDelivered ==
    [][(Controller /\ EventStep /\ emitDataHandler
          /\ last'.r.ret = "transition" /\ last'.r.emitObject # Undefined) =>
          emitted' = Append(emitted, [obj |-> last'.r.emitObject, ev |-> nEv'])]_vars

\* C4: in pre-init a text event, a close tag and an open tag that is not the
\* root construct no state, emit nothing, raise nothing and leave the
\* controller in pre-init; an open tag that satisfies the root predicate makes
\* the controller active with an initial state built from that tag; an active
\* controller forwards open, text and close events to its current state.
C4_PreInit ==
    [][(Controller /\ EventStep /\ TagEvent(last'.ev)) =>
          IF preinit
          THEN /\ last'.r = NoCall
               /\ emitted' = emitted /\ errors' = errors /\ thrown' = thrown
               /\ IF last'.ev.type = "opentag" /\ last'.ev.name = firstTag(cfg)
                  THEN /\ ~preinit'
                       /\ Len(state') = 1
                       /\ state'[1].cls = "GroupParserState"
                       /\ state'[1].tag = last'.ev.name
                       /\ handlers' = FullDispatch
                  ELSE /\ preinit'
                       /\ state' = <<>>
                       /\ handlers' = handlers
          ELSE /\ handlers = FullDispatch
               /\ last'.r # NoCall]_vars

C4_Witness ==
    /\ Controller
    /\ ~preinit
    /\ tags = <<"s", firstTag(cfg)>>
    /\ last.ev = Event("opentag", firstTag(cfg), <<>>)
    /\ last.r = NoCall
    /\ nEv >= 3

\* C5: the controller is constructed in pre-init, and once it has left
\* pre-init no event brings it back.
C5_PreInitOnce ==
    /\ (Controller => preinit)
    /\ [][~preinit => ~preinit']_vars

C5_Witness ==
    /\ Controller
    /\ ~preinit
    /\ tags = <<firstTag(cfg)>>
    /\ last.ev = Event("opentag", firstTag(cfg), <<>>)
    /\ last.r # NoCall

\* C6 (as claimed): when a state handler invoked by the controller signals a
\* structural violation and an error sink is registered, the sink receives
\* that error exactly once.
C6_ViolationReachesErrorSink ==
    [][(Controller /\ EventStep /\ errorHandler /\ last'.r.ret = "throw"
          /\ last'.r.err \in {"UnexpectedXMLTagError", "InvalidXMLCloseTagError"}) =>
          errors' = Append(errors, last'.r.err)]_vars

\* C7 (as claimed): after a structural violation has been signalled, no later
\* event changes the controller's current state or causes an emission.
C7_HaltsAfterViolation ==
    [][(Controller /\ thrown # <<>>) => state' = state /\ emitted' = emitted]_vars

\* C8 (as claimed): when end-of-input is signalled with an error sink
\* registered, the sink receives one MissingXMLTagError if the controller is
\* still in pre-init and nothing if it is active.
C8_MissingRootReported ==
    [][(Controller /\ errorHandler /\ ~ended /\ ended') =>
          IF preinit
          THEN errors' = Append(errors, "MissingXMLTagError")
          ELSE errors' = errors]_vars

\* C9 (as claimed): on its close tag a ReturnTextParserState feeds its
\* collector once with the captured text and hands control to its parent,
\* emitting nothing.
C9_ReturnTextReturnsToParent ==
    [][(Controller /\ EventStep /\ last'.ev.type = "closetag" /\ state # <<>>
          /\ Head(state).cls = "ReturnTextParserState") =>
          /\ state' = Collector_onFeed(Tail(state), Head(state).text)
          /\ emitted' = emitted]_vars

\* C10 (as claimed): a Group state that has begun answers an open tag that is
\* in its transition table with the table entry's child state, which becomes
\* the current state, and any other open tag with its unexpected-tag policy.
C10_BegunGroupDispatches ==
    [][(~Controller /\ EventStep /\ last'.ev.type = "opentag"
          /\ handlers.opentag = "start_opentag"
          /\ IsGroupCls(Head(state).cls) /\ Head(state).begun) =>
          LET expected == handleOpenTagAfterBegin(state, last'.ev.name)
          IN  /\ expected.ret = "transition" => state' = expected.newState
              /\ expected.ret = "throw" => thrown' = Append(thrown, expected.err)]_vars

\* The XMLParseEventHandlers dispatch of RSSParserTransformer is registered.
Transformer == ~Controller /\ handlers.opentag = "start_opentag"

\* The depth at which the grammar's group element sits in the document.
GroupDepth == IF cfg.grammar = "rss" THEN 2 ELSE 1

\* C11 (as claimed): under the Ignore policy every event of an unknown
\* child's subtree (its open tag, its text, nested tags, its own close tag)
\* emits nothing, raises nothing and leaves the begun Group state current.
C11_IgnoreSkipsSubtree ==
    [][(Transformer /\ EventStep /\ TagEvent(last'.ev)
          /\ IsGroupCls(Head(state).cls) /\ Head(state).begun
          /\ Head(state).policy = "Ignore"
          /\ Len(tags) >= GroupDepth /\ tags[GroupDepth] = Head(state).tag
          /\ IF Len(tags) = GroupDepth
             THEN last'.ev.type = "opentag" /\ ~isAllowedTag(state, last'.ev.name)
             ELSE ~isAllowedTag(state, tags[GroupDepth + 1])) =>
          /\ state' = state
          /\ emitted' = emitted
          /\ errors' = errors
          /\ thrown' = thrown]_vars

\* C12: a Group state that applies its unexpected-tag policy to an open tag
\* stays current and emits nothing under Ignore, raises UnexpectedXMLTagError
\* without a transition under Error, and under Parse returns exactly what the
\* caller-supplied function returns for (this state, the tag).
C12_UnexpectedTagPolicy ==
    [][(Transformer /\ EventStep /\ last'.ev.type = "opentag"
          /\ IsGroupCls(Head(state).cls) /\ ~Head(state).begun
          /\ last'.ev.name # Head(state).tag) =>
          CASE Head(state).policy = "Ignore" ->
                 /\ last'.r.ret # "throw"
                 /\ state' = state
                 /\ emitted' = emitted
                 /\ thrown' = thrown
            [] Head(state).policy = "Error" ->
                 /\ last'.r.ret = "throw"
                 /\ last'.r.err = "UnexpectedXMLTagError"
                 /\ thrown' = Append(thrown, "UnexpectedXMLTagError")
                 /\ state' = state
                 /\ emitted' = emitted
            [] OTHER ->
                 /\ last'.r = unexpectedTagTransitionFunction(state, last'.ev.name)
                 /\ state' = last'.r.newState
                 /\ thrown' = thrown]_vars

C12_Witness ==
    /\ Transformer
    /\ cfg.policy = "Parse"
    /\ last.ev = Event("opentag", "x", <<>>)
    /\ Len(state) = 2
    /\ state[1].cls = "SimpleTextParserState" /\ state[1].tag = "x"
    /\ state[2].cls = "SimpleGroupParserState" /\ ~state[2].begun

\* C13: a Group state given a close tag whose name is not its owning tag
\* name raises InvalidXMLCloseTagError whatever its policy; the finished-state
\* function is not called, the state stays and nothing is emitted.
C13_CloseMismatchFatal ==
    [][(Transformer /\ EventStep /\ last'.ev.type = "closetag"
          /\ IsGroupCls(Head(state).cls)
          /\ last'.ev.name # Head(state).tag) =>
          /\ last'.r.ret = "throw"
          /\ last'.r.err = "InvalidXMLCloseTagError"
          /\ thrown' = Append(thrown, "InvalidXMLCloseTagError")
          /\ state' = state
          /\ emitted' = emitted]_vars

C13_Witness ==
    /\ Transformer
    /\ cfg.policy = "Ignore"
    /\ last.ev = Event("closetag", "x", <<>>)
    /\ IsGroupCls(Head(state).cls)
    /\ thrown = <<"InvalidXMLCloseTagError">>

\* C14: before a Group state has begun, an open tag with the owning name
\* marks it begun, keeps it current and emits nothing; any other open tag gets
\* the unexpected-tag policy and leaves the state not begun; no handler call
\* makes a begun Group state not begun again.
C14_BeginOnOwningTag ==
    [][(Transformer /\ EventStep) =>
          /\ (last'.ev.type = "opentag" /\ IsGroupCls(Head(state).cls)
                 /\ ~Head(state).begun) =>
                IF last'.ev.name = Head(state).tag
                THEN /\ last'.r.ret = "transition"
                     /\ last'.r.emitObject = Undefined
                     /\ state' = [state EXCEPT ![1].begun = TRUE]
                     /\ emitted' = emitted
                ELSE /\ last'.r = handleUnexpectedTag(state, last'.ev.name)
                     /\ ~Head(last'.r.self).begun
          /\ \A i \in 1..Len(state) :
                (IsGroupCls(state[i].cls) /\ state[i].begun) =>
                   LET after == IF last'.r = NoCall THEN state' ELSE last'.r.self
                       k == Len(after) - Len(state) + i
                   IN  k >= 1 /\ after[k].cls = state[i].cls /\ after[k].begun]_vars

C14_Witness ==
    /\ Transformer
    /\ cfg.grammar = "group"
    /\ tags = <<"x", "g">>
    /\ last.ev = Event("opentag", "g", <<>>)
    /\ Head(state).cls = "SimpleGroupParserState"
    /\ Head(state).begun

\* The classes of Text-Capture states, and: one of them is the current state
\* of a driver that is dispatching events.
TextCaptureCls == {"TextParserState", "SimpleTextParserState"}

Capturing ==
    /\ state # <<>>
    /\ Head(state).cls \in TextCaptureCls
    /\ IF Controller THEN ~preinit ELSE Transformer

\* C15 (as claimed): a Text-Capture state that is given an open tag fails
\* with UnexpectedXMLTagError, whatever the nested tag's name: it returns no
\* transition and nothing is emitted.
C15_TextCaptureRejectsOpenTag ==
    [][(EventStep /\ last'.ev.type = "opentag" /\ Capturing) =>
          /\ last'.r.ret = "throw"
          /\ last'.r.err = "UnexpectedXMLTagError"
          /\ state' = state
          /\ emitted' = emitted]_vars

\* C16: on a close tag a Text-Capture state returns a Transition to the
\* parent it was constructed with, carrying the caller's transform applied to
\* the concatenation of the text received so far and the attribute map of the
\* state's open tag (a transform of the XMLParseEventHandlers draft takes the
\* text alone, so it cannot depend on the attributes); the name of the close
\* tag plays no part.  The state is constructed with empty text, the open
\* tag's attributes and the constructing state as parent, and text events
\* change neither the attributes nor the parent.
C16_CloseEmitsTransform ==
    [][EventStep =>
          /\ (last'.ev.type = "closetag" /\ Capturing) =>
                LET this == Head(state)
                    expected ==
                       IF this.cls = "TextParserState"
                       THEN emitObjectTextConstructor(this.fn, this.text, this.attributes)
                       ELSE ApplyTransform(this.fn, this.text)
                IN  /\ Tail(state) # <<>>
                    /\ last'.r = StateTransition(state, Tail(state), expected)
                    /\ state' = Tail(state)
          /\ (last'.ev.type = "opentag" /\ last'.r.ret = "transition"
                 /\ Head(last'.r.newState).cls \in TextCaptureCls) =>
                /\ Head(state').text = <<>>
                /\ Head(state').cls = "TextParserState" =>
                      Head(state').attributes = last'.ev.attributes
                /\ Tail(state') = last'.r.self
          /\ (last'.ev.type = "text" /\ Capturing) =>
                /\ Head(state').attributes = Head(state).attributes
                /\ Head(state').fn = Head(state).fn
                /\ Tail(state') = Tail(state)]_vars

C16_Witness ==
    /\ Controller
    /\ last.ev.type = "closetag"
    /\ last.r.ret = "transition"
    /\ Head(last.r.self).cls = "TextParserState"
    /\ last.ev.name # Head(last.r.self).tag
    /\ Head(last.r.self).attributes # NoAttributes
    /\ Head(last.r.self).text # <<>>
    /\ state = Tail(last.r.self)
    /\ emitted # <<>>
    /\ emitted[Len(emitted)].obj =
          Obj("s", Attributed(Str(Head(last.r.self).text), Head(last.r.self).attributes))

\* The text values of two to MaxText characters.
Chars == {"0", "a"}

TextValues == UNION {[1..n -> Chars] : n \in 2..MaxText}

\* The ways to cut a text value into two or three consecutive fragments.
Splits(v) ==
    LET n == Len(v)
    IN  {<<SubSeq(v, 1, i), SubSeq(v, i + 1, n)>> : i \in 1..(n - 1)}
        \cup {<<SubSeq(v, 1, ij[1]), SubSeq(v, ij[1] + 1, ij[2]), SubSeq(v, ij[2] + 1, n)>> :
                 ij \in {p \in (1..(n - 1)) \X (1..(n - 1)) : p[1] < p[2]}}

\* Successive calls of feed / transform, one per chunk.  A transform stream
\* that has been errored is given no further chunk.
RECURSIVE Calls(_, _)
Calls(c, chunks) ==
    IF chunks = <<>> THEN c
    ELSE IF c.cfg.driver = "XMLParserController"
         THEN Calls(feed(c, Head(chunks)), Tail(chunks))
         ELSE IF c.thrown # <<>> \/ c.errors # <<>>
              THEN c
              ELSE Calls(transform(c, Head(chunks)), Tail(chunks))

\* One call of feed / transform per event of the sequence.
CallEach(c, events) == Calls(c, [k \in 1..Len(events) |-> <<events[k]>>])

TextEvents(fragments) ==
    [k \in 1..Len(fragments) |-> Event("text", "", fragments[k])]

Objects(c) == [i \in 1..Len(c.emitted) |-> c.emitted[i].obj]

\* What the text events of the fragments, each in its own call, and then the
\* close tag make of the controller c: the controller after the text events,
\* what the state's close handler returns, and the controller after the close.
Capture(c, fragments, close) ==
    LET mid == CallEach(c, TextEvents(fragments))
    IN  [mid |-> mid, r |-> Result(mid, close), done |-> CallEach(mid, <<close>>)]

\* The event sequences that bring a freshly constructed driver of the
\* configuration to a Text-Capture state.
CapturePrefixes(conf) ==
    CASE conf.grammar = "doc" ->
            {<<OpenTagEvent("doc", NoAttributes), OpenTagEvent("s", attributes)>> :
                attributes \in AttributeMaps(conf, "s")}
            \cup {<<OpenTagEvent("doc", NoAttributes), OpenTagEvent("n", NoAttributes)>>}
      [] conf.grammar = "group" ->
            {<<OpenTagEvent("g", NoAttributes), OpenTagEvent("a", NoAttributes)>>}
            \cup (IF conf.policy = "Parse"
                  THEN {<<OpenTagEvent("g", NoAttributes), OpenTagEvent("x", attributes)>> :
                           attributes \in AttributeMaps(conf, "x")}
                  ELSE {})
      [] OTHER -> {}

\* The driver as the stream or the caller has it before the first chunk.
Ready(conf) ==
    IF conf.driver = "XMLParserController"
    THEN Construct(conf)
    ELSE RSSParserTransformer_start(Construct(conf))

\* Capturing has just begun: the events of a capture prefix have been fed,
\* one call each.
InitCapture ==
    \E conf \in Configs : \E prefix \in CapturePrefixes(conf) :
        LET before == CallEach(Ready(conf), SubSeq(prefix, 1, Len(prefix) - 1))
            c == CallEach(before, <<prefix[Len(prefix)]>>)
        IN  /\ cfg = c.cfg
            /\ preinit = c.preinit
            /\ state = c.state
            /\ handlers = c.handlers
            /\ emitDataHandler = c.emitDataHandler
            /\ errorHandler = c.errorHandler
            /\ emitted = c.emitted
            /\ errors = c.errors
            /\ thrown = c.thrown
            /\ nEv = c.nEv
            /\ tags = [k \in 1..Len(prefix) |-> prefix[k].name]
            /\ ended = FALSE
            /\ produced = <<>>
            /\ last = [ev |-> prefix[Len(prefix)], r |-> Result(before, prefix[Len(prefix)])]
            /\ peer = <<>>

NextCapture ==
    \/ Text
    \/ CloseTag
    \/ SetOnEmit

SpecCapture == InitCapture /\ [][NextCapture]_vars

\* C17: while a Text-Capture state is capturing, every further text value
\* cut into two or three text events leaves the same state object current
\* after the text events, with nothing emitted and no transition, and the
\* close tag then returns and delivers the same object, and leaves the same
\* controller state, as when the value arrives in one text event.
C17_ChunkBoundaryIndependence ==
    (Capturing /\ thrown = <<>> /\ tags # <<>>) =>
       \A v \in TextValues :
          \A whole \in {Capture(This, <<v>>, Event("closetag", tags[Len(tags)], <<>>))} :
             \A fragments \in Splits(v) :
                \A split \in {Capture(This, fragments, Event("closetag", tags[Len(tags)], <<>>))} :
                   /\ split.mid.emitted = emitted
                   /\ SameObjects(split.mid.state, state)
                   /\ split.mid.state = whole.mid.state
                   /\ split.r.ret = "transition"
                   /\ split.r.emitObject = whole.r.emitObject
                   /\ Objects(split.done) = Objects(whole.done)
                   /\ split.done.state = whole.done.state

C17_Witness ==
    /\ Controller
    /\ last.ev.type = "closetag"
    /\ last.r.ret = "transition"
    /\ Head(last.r.self).cls = "TextParserState"
    /\ Head(last.r.self).text = <<"0", "a", "0">>
    /\ nEv = 6
    /\ emitted = <<[obj |-> Obj("s", Str(<<"0", "a", "0">>)), ev |-> 6]>>

\* The events the tokenizer can report next when the elements of the stack
\* are open, each with the stack it leaves.
Following(conf, stack) ==
    {[ev |-> OpenTagEvent(name, NoAttributes), tags |-> Append(stack, name)] :
        name \in IF Len(stack) < MaxDepth THEN Names(conf) ELSE {}}
    \cup {[ev |-> Event("text", "", text), tags |-> stack] : text \in Fragments}
    \cup (IF stack = <<>> THEN {}
          ELSE {[ev |-> Event("closetag", stack[Len(stack)], <<>>),
                 tags |-> SubSeq(stack, 1, Len(stack) - 1)]})

\* C18 (as claimed): whatever the driver has been fed so far, the next two
\* events of the document leave the same emitted objects, the same current
\* state with its captured text, and the same pre-init flag when they arrive
\* in one call of feed / transform as when they arrive in two successive
\* calls.
C18_FeedPartitionIndependence ==
    (CanFeed /\ nEv + 2 <= MaxEvents) =>
       \A first \in Following(cfg, tags) :
          \A second \in Following(cfg, first.tags) :
             LET single == Calls(This, << <<first.ev, second.ev>> >>)
                 successive == Calls(This, << <<first.ev>>, <<second.ev>> >>)
             IN  /\ Objects(single) = Objects(successive)
                 /\ single.state = successive.state
                 /\ single.preinit = successive.preinit

\* set onEmit(handler), on a controller record.
Registered(c) ==
    IF c.cfg.driver = "XMLParserController" THEN [c EXCEPT !.emitDataHandler = TRUE] ELSE c

\* Two driver instances in one process, each constructed for its own
\* document; the second one has its emit sink registered and, if it is a
\* transform stream, has been started.
InitPair ==
    \E conf \in Configs : \E other \in Configs :
        LET c == Construct(conf)
        IN  /\ cfg = c.cfg
            /\ preinit = c.preinit
            /\ state = c.state
            /\ handlers = c.handlers
            /\ emitDataHandler = c.emitDataHandler
            /\ errorHandler = c.errorHandler
            /\ emitted = c.emitted
            /\ errors = c.errors
            /\ thrown = c.thrown
            /\ nEv = c.nEv
            /\ tags = <<>>
            /\ ended = FALSE
            /\ produced = <<>>
            /\ last = [ev |-> NoEvent, r |-> NoCall]
            /\ peer = <<[c |-> Registered(Ready(other)), tags |-> <<>>, ev |-> NoEvent]>>

PairBudget == nEv + peer[1].c.nEv < MaxPairEvents

\* feed / transform of the second instance with a chunk that holds the next
\* event of its document.
PeerFeed ==
    \E next \in Following(peer[1].c.cfg, peer[1].tags) :
        LET after == InstanceCall(Instances, 2, <<next.ev>>)
        IN  /\ PairBudget
            /\ peer[1].c.cfg.driver = "RSSParserTransformer" =>
                  peer[1].c.thrown = <<>> /\ peer[1].c.errors = <<>>
            /\ Becomes(after[1])
            /\ peer' = <<[c |-> after[2], tags |-> next.tags, ev |-> next.ev]>>
            /\ UNCHANGED <<tags, ended, produced, last>>

NextPair ==
    \/ PairBudget /\ OpenTag
    \/ PairBudget /\ Text
    \/ PairBudget /\ CloseTag
    \/ SetOnEmit
    \/ Start
    \/ PeerFeed

SpecPair == InitPair /\ [][NextPair]_vars

ChannelFieldTags ==
    {"title", "link", "description", "language", "copyright", "category",
     "pubDate", "lastBuildDate", "ttl"}

ChannelFieldConversion(field) ==
    CASE field = "ttl" -> "parseInt"
      [] field \in {"pubDate", "lastBuildDate"} -> "Date"
      [] OTHER -> "string"

\* C20 (as claimed): in the RSS grammar, once rss and channel are open, the
\* events open(tag), text(value), close(tag) of any supported channel field
\* tag add exactly one emitted object, { channel: { tag: value } } with the
\* value converted as declared for the tag, raise nothing, and leave the
\* channel state current.
C20_ChannelFieldContribution ==
    (Transformer /\ cfg.grammar = "rss" /\ tags = <<"rss", "channel">>
        /\ thrown = <<>> /\ errors = <<>>) =>
       \A field \in ChannelFieldTags : \A value \in Fragments :
          LET done == CallEach(This, <<OpenTagEvent(field, NoAttributes),
                                       Event("text", "", value),
                                       Event("closetag", field, <<>>)>>)
          IN  /\ Objects(done) =
                    Append(Objects(This),
                           createChannelDataFeedObject(field,
                               Convert(ChannelFieldConversion(field), value)))
              /\ done.thrown = <<>>
              /\ done.state # <<>>
              /\ Head(done.state).cls = "ChannelElementState"

(***************************************************************************)
(* The second RSS grammar under its controller.                           *)
(***************************************************************************)
InitSyndication ==
    \E conf \in SyndicationConfigs :
        LET c == Construct(conf)
        IN  /\ cfg = c.cfg
            /\ preinit = c.preinit
            /\ state = c.state
            /\ handlers = c.handlers
            /\ emitDataHandler = c.emitDataHandler
            /\ errorHandler = c.errorHandler
            /\ emitted = c.emitted
            /\ errors = c.errors
            /\ thrown = c.thrown
            /\ nEv = c.nEv
            /\ tags = <<>>
            /\ ended = FALSE
            /\ produced = <<>>
            /\ last = [ev |-> NoEvent, r |-> NoCall]
            /\ peer = <<>>

NextSyndication ==
    \/ OpenTag
    \/ Text
    \/ CloseTag
    \/ ParserError
    \/ EndOfInput
    \/ SetOnEmit
    \/ SetOnError

SpecSyndication == InitSyndication /\ [][NextSyndication]_vars

\* The object has the field.
HasField(obj, field) == obj.k = "object" /\ obj.v # <<>> /\ obj.v[1] = field

\* C21 (as claimed): when the ttl element of a channel closes and an emit
\* sink is registered, nothing reaches the error sink, nothing is thrown and
\* the channel group is current again; text that starts with an integer
\* yields the contribution { ttl: integer }, and with any other text no
\* emitted contribution has the field ttl.
C21_ConversionFailureAbsorbed ==
    [][(EventStep /\ last'.ev.type = "closetag" /\ Capturing
          /\ Head(state).tag = "ttl" /\ emitDataHandler /\ thrown = <<>>) =>
          /\ errors' = errors
          /\ thrown' = thrown
          /\ state' = Tail(state)
          /\ IF parseInt(Head(state).text) = NaN
             THEN \A i \in (Len(emitted) + 1)..Len(emitted') :
                     ~HasField(emitted'[i].obj, "ttl")
             ELSE emitted' = Append(emitted,
                     [obj |-> Obj("ttl", parseInt(Head(state).text)), ev |-> nEv'])]_vars

\* The channel group of the second grammar is the current state and is not
\* skipping an ignored element.
ChannelCurrent ==
    /\ Controller /\ ~preinit /\ thrown = <<>>
    /\ state # <<>>
    /\ Head(state).cls = "GroupParserState"
    /\ Head(state).table = "buildChannelElementState"
    /\ Head(state).skip = 0

\* C22 (as claimed): an item open tag that reaches the channel state makes
\* an Item state current, with the channel state as the state to return to
\* and nothing emitted or raised; the item close tag that reaches an Item
\* state emits exactly one item record and makes that channel state current
\* again.
C22_ItemStateRoundTrip ==
    [][EventStep =>
          /\ (last'.ev.type = "opentag" /\ last'.ev.name = "item" /\ ChannelCurrent) =>
                /\ state' = NewItemElementState(state)
                /\ emitted' = emitted
                /\ thrown' = thrown
          /\ (last'.ev.type = "closetag" /\ last'.ev.name = "item" /\ emitDataHandler
                 /\ state # <<>> /\ Head(state).cls = "ItemElementState") =>
                /\ state' = Tail(state)
                /\ emitted' = Append(emitted,
                      [obj |-> ItemElementState_transitionFinishedState(state).emitObject,
                       ev |-> nEv'])]_vars

\* { item: { field: value, ... } }
ItemRecord(fields) == Obj("item", [k |-> "object", v |-> fields])

\* The events of an item block that holds one title element.
ItemBlock(title) ==
    <<OpenTagEvent("item", NoAttributes),
      OpenTagEvent("title", NoAttributes),
      Event("text", "", title),
      Event("closetag", "title", <<>>),
      Event("closetag", "item", <<>>)>>

\* C23 (as claimed): with an emit sink registered, two item blocks that
\* reach the channel state add exactly two item records, in document order,
\* each holding only the title given between its own open and close tags,
\* and one item block adds exactly one.
C23_OneRecordPerItem ==
    (ChannelCurrent /\ emitDataHandler) =>
       \A first \in Fragments : \A second \in Fragments :
          /\ Objects(CallEach(This, ItemBlock(first))) =
                Append(Objects(This), ItemRecord(<<"title", Str(first)>>))
          /\ Objects(CallEach(This, ItemBlock(first) \o ItemBlock(second))) =
                Objects(This) \o <<ItemRecord(<<"title", Str(first)>>),
                                   ItemRecord(<<"title", Str(second)>>)>>

\* The attributes of an enclosure element, and the contribution the claim
\* derives from them.
EnclosureAttributes ==
    << <<"url", <<"u">> >>, <<"length", <<"1", "2", "3">> >>, <<"type", <<"t">> >> >>

EnclosureContribution(attributes) ==
    [k |-> "object",
     v |-> <<"url", Str(attributes[1][2]), "length", parseInt(attributes[2][2]),
             "type", Str(attributes[3][2])>>]

\* C24 (as claimed): with an emit sink registered, an item block that holds
\* an enclosure element with attributes url, length and type and no text
\* adds exactly one item record, whose enclosure field holds the url, the
\* length as an integer and the type.
C24_EnclosureContribution ==
    (ChannelCurrent /\ emitDataHandler) =>
       Objects(CallEach(This, <<OpenTagEvent("item", NoAttributes),
                                OpenTagEvent("enclosure", EnclosureAttributes),
                                Event("closetag", "enclosure", <<>>),
                                Event("closetag", "item", <<>>)>>)) =
          Append(Objects(This),
                 ItemRecord(<<"enclosure", EnclosureContribution(EnclosureAttributes)>>))

\* A minimal document of the first RSS grammar, up to the close of its
\* channel container.
ChannelDocument ==
    <<OpenTagEvent("rss", NoAttributes),
      OpenTagEvent("channel", NoAttributes),
      Event("closetag", "channel", <<>>)>>

\* C25: in the resetting RSS variant the close tag of the channel container
\* makes a new root-detection state current, with nothing emitted and
\* nothing raised; and a second document fed from there, directly or after
\* the close tag of the first document's rss element, raises nothing, emits
\* what the first document emits when fed to a fresh parser, and ends in the
\* same state.
C25_ResetAcceptsSecondDocument ==
    [][(Transformer /\ cfg.grammar = "rss" /\ EventStep
          /\ last'.ev = Event("closetag", "channel", <<>>)
          /\ Head(state).cls = "ChannelElementState" /\ Head(state).begun) =>
          /\ state' = NewRootElementState
          /\ emitted' = emitted
          /\ thrown' = thrown
          /\ errors' = errors
          /\ \A between \in {<<>>, <<Event("closetag", "rss", <<>>)>>} :
                LET again == CallEach(This', between \o ChannelDocument)
                    fresh == CallEach(Ready(cfg), ChannelDocument)
                IN  /\ again.state = fresh.state
                    /\ again.thrown = thrown
                    /\ again.errors = errors
                    /\ Objects(again) = Objects(This) \o Objects(fresh)]_vars

C25_Witness ==
    /\ Transformer
    /\ cfg.grammar = "rss"
    /\ tags = <<"rss", "rss">>
    /\ nEv = 6
    /\ last.ev = Event("closetag", "channel", <<>>)
    /\ state = NewRootElementState
    /\ thrown = <<>>
    /\ errors = <<>>

C27_FinalizeOnlyAfterBegin ==
    [][(Transformer /\ EventStep /\ last'.ev.type = "closetag"
          /\ IsGroupCls(Head(state).cls) /\ ~Head(state).begun
          /\ last'.ev.name = Head(state).tag) =>
          /\ last'.r # transitionFinishedState(state)
          /\ SameObjects(state', state)]_vars

(***************************************************************************)
(* The Either-based draft of the RSS states (src/RSSParserTransformer.ts). *)
(* A state's method returns left(NextState) or right(Error).  The draft's  *)
(* transformer calls none of them, so the methods are applied by a caller  *)
(* that follows the NextState it is given.  _currentTag is kept in the     *)
(* frame's tag field ("" when undefined).                                  *)
(***************************************************************************)
\* NextState.AsLeft(nextState, streamOutput)
AsLeft(self, nextState, streamOutput) ==
    [ret |-> "left", self |-> self, newState |-> nextState,
     emitObject |-> streamOutput, err |-> "none"]

\* right(new <err>(...))
Right(self, err) ==
    [ret |-> "right", self |-> self, newState |-> <<>>,
     emitObject |-> Undefined, err |-> err]

NewEitherRootElementState == <<Frame("Either.RootElementState", "")>>

NewEitherChannelElementState == <<Frame("Either.ChannelElementState", "")>>

Either_RootElementState_opentag(st, name) ==
    IF name # "rss"
    THEN Right(st, "RSSParserError")
    ELSE AsLeft(st, NewEitherChannelElementState, Undefined)

\* NextState.AsLeft() for item: no next state is given.
Either_ChannelElementState_opentag(st, name) ==
    IF Head(st).tag = "" THEN Right(st, "RSSParserError")
    ELSE IF name = "item" THEN AsLeft(st, <<>>, Undefined)
    ELSE IF isChannelDataKey(name)
    THEN LET self == [st EXCEPT ![1].tag = name]
         IN  AsLeft(self, self, Undefined)
    ELSE AsLeft(st, st, Undefined)

\* Object.defineProperty with a string as the property descriptor throws.
Either_ChannelElementState_text(st, text) ==
    IF Head(st).tag = ""
    THEN [Void(st) EXCEPT !.ret = "error", !.err = "RSSParserError"]
    ELSE Throw(st, "TypeError")

Either_ChannelElementState_closetag(st, name) ==
    IF Head(st).tag # "" /\ name = Head(st).tag
    THEN LET self == [st EXCEPT ![1].tag = ""]
         IN  AsLeft(self, self, Undefined)
    ELSE Right(st, "RSSParserError")

\* The methods a state object has.
Either_HasMethod(this, type) ==
    CASE this.cls = "Either.RootElementState" -> type = "opentag"
      [] OTHER -> type \in {"opentag", "text", "closetag"}

Either_Call(st, ev) ==
    CASE ev.type = "opentag" /\ Head(st).cls = "Either.RootElementState" ->
           Either_RootElementState_opentag(st, ev.name)
      [] ev.type = "opentag" -> Either_ChannelElementState_opentag(st, ev.name)
      [] ev.type = "text" -> Either_ChannelElementState_text(st, ev.text)
      [] OTHER -> Either_ChannelElementState_closetag(st, ev.name)

EitherConfig == [driver |-> "Either", grammar |-> "either", policy |-> "Ignore"]

\* private state: RSSParserState = new RootElementState()
InitEither ==
    /\ cfg = EitherConfig
    /\ preinit = FALSE
    /\ state = NewEitherRootElementState
    /\ handlers = NoHandlers
    /\ emitDataHandler = FALSE
    /\ errorHandler = FALSE
    /\ emitted = <<>>
    /\ errors = <<>>
    /\ thrown = <<>>
    /\ nEv = 0
    /\ tags = <<>>
    /\ ended = FALSE
    /\ produced = <<>>
    /\ last = [ev |-> NoEvent, r |-> NoCall]
    /\ peer = <<>>

\* The caller applies the state's method for the next event of the document
\* and makes the NextState's state, when one is given, the current state.
EitherStep ==
    \E next \in Following(cfg, tags) :
        LET r == Either_Call(state, next.ev)
        IN  /\ nEv < MaxEvents
            /\ thrown = <<>>
            /\ state # <<>>
            /\ Either_HasMethod(Head(state), next.ev.type)
            /\ nEv' = nEv + 1
            /\ tags' = next.tags
            /\ last' = [ev |-> next.ev, r |-> r]
            /\ state' = IF r.ret = "left" THEN r.newState ELSE r.self
            /\ thrown' = IF r.ret = "throw" THEN Append(thrown, r.err) ELSE thrown
            /\ UNCHANGED <<cfg, ended, handlers, preinit, emitDataHandler, errorHandler,
                           emitted, errors, produced, peer>>

\* The caller passes over an event for which the state has no method.
EitherSkip ==
    \E next \in Following(cfg, tags) :
        /\ nEv < MaxEvents
        /\ thrown = <<>>
        /\ state # <<>>
        /\ ~Either_HasMethod(Head(state), next.ev.type)
        /\ nEv' = nEv + 1
        /\ tags' = next.tags
        /\ last' = [ev |-> next.ev, r |-> NoCall]
        /\ UNCHANGED <<cfg, ended, handlers, preinit, state, emitDataHandler,
                       errorHandler, emitted, errors, thrown, produced, peer>>

NextEither ==
    \/ EitherStep
    \/ EitherSkip

SpecEither == InitEither /\ [][NextEither]_vars

\* C28 (as claimed, for the Either-based root state): an open tag named rss
\* makes a fresh channel state current and emits nothing; any other open tag
\* signals a MissingXMLTagError and gives no next state.
C28_EitherRootAcceptsOnlyRss ==
    [][(EventStep /\ last'.ev.type = "opentag"
          /\ Head(state).cls = "Either.RootElementState") =>
          IF last'.ev.name = "rss"
          THEN /\ state' = NewEitherChannelElementState
               /\ last'.r.emitObject = Undefined
               /\ last'.r.err = "none"
          ELSE /\ last'.r.err = "MissingXMLTagError"
               /\ state' = state]_vars

\* Tag names put to the channel state: the field names, names that contain
\* one, and names that contain none.
CandidateTagNames == ChannelDataKeys \cup {"subtitle", "atom:link", "item", "rss"}

\* C29 (as claimed): whenever the RSS channel state is the current state, its
\* isAllowedTag accepts a tag name if and only if the name is exactly one of
\* the thirteen channel field names.
C29_AllowedExactlyChannelFields ==
    (Transformer /\ state # <<>> /\ Head(state).cls = "ChannelElementState") =>
        \A name \in CandidateTagNames :
            isAllowedTag(state, name) <=> name \in ChannelDataKeys

\* The classes of Group states, of both families.
GroupClasses == {"GroupParserState", "ChannelElementState", "SimpleGroupParserState"}

GroupCurrent == state # <<>> /\ Head(state).cls \in GroupClasses

\* C30: a text event delivered while a Group state is the current state
\* changes no state, emits nothing and raises no error.
C30_TextLeavesGroupAlone ==
    [][(EventStep /\ last'.ev.type = "text" /\ GroupCurrent) =>
          /\ state' = state
          /\ emitted' = emitted
          /\ produced' = produced
          /\ errors' = errors
          /\ thrown' = thrown
          /\ last'.r.ret \in {"void", "nocall"}]_vars

\* Text has just been delivered to a Group state that had begun.
C30_Witness ==
    /\ GroupCurrent
    /\ Head(state).begun
    /\ last.ev.type = "text"
    /\ last.ev.text # <<>>
    /\ thrown = <<>>

\* C31: a tokenizer error event reaches the registered error sink exactly
\* once and changes neither the controller's current state nor its pre-init
\* flag, and emits nothing; with no error sink registered it is dropped and
\* nothing changes.
C31_TokenizerErrorForwarded ==
    [][(Controller /\ EventStep /\ last'.ev.type = "error") =>
          /\ errors' = IF errorHandler THEN Append(errors, last'.ev.name) ELSE errors
          /\ state' = state
          /\ preinit' = preinit
          /\ handlers' = handlers
          /\ emitted' = emitted
          /\ produced' = produced
          /\ thrown' = thrown]_vars

\* A tokenizer error has just reached the error sink in the middle of a parse.
C31_Witness ==
    /\ Controller
    /\ last.ev.type = "error"
    /\ errorHandler
    /\ errors = <<"SaxesError">>
    /\ ~preinit
    /\ Len(state) > 1

\* The classes that accumulate text: Text-Capture and Delegating-Collector.
AccumulatingClasses == {"TextParserState", "ReturnTextParserState"}

Accumulating == state # <<>> /\ Head(state).cls \in AccumulatingClasses

\* The step constructs an accumulating state and makes it current.
ConstructsAccumulating ==
    /\ last'.r.ret = "transition"
    /\ Len(state') = Len(state) + 1
    /\ Head(state').cls \in AccumulatingClasses

\* The current state has handled its close tag: it finalized on the last event.
Finalized ==
    /\ Accumulating
    /\ last.ev.type = "closetag"
    /\ last.r.ret # "nocall"
    /\ last.r.self = state

\* C32 (as claimed): the accumulated text of a Text-Capture or
\* Delegating-Collector state is empty at construction, every text event
\* appends exactly its fragment, open-tag and close-tag events leave it as it
\* is, and a state that has finalized receives no further text.
C32_AccumulatedText ==
    [][(Controller /\ EventStep) =>
          /\ ConstructsAccumulating => Head(state').text = <<>>
          /\ (Accumulating /\ last'.ev.type = "text") =>
                /\ Head(last'.r.self).text = Head(state).text \o last'.ev.text
                /\ ~Finalized
          /\ (Accumulating /\ last'.ev.type \in {"opentag", "closetag"}) =>
                Head(last'.r.self).text = Head(state).text]_vars

\* The k-th state object of a chain, counted from the outermost one.
FromRoot(chain, k) == chain[Len(chain) - k + 1]

\* The state objects that a step keeps: the same place in the chain, the same
\* class and the same owning tag.
Kept(a, b) == a.cls = b.cls /\ a.tag = b.tag

\* C33: no open, text or close event handled by a Group state or by its
\* children changes the state's transition table: every state object that a
\* step keeps has the table it had, so a child tag name is allowed, and
\* selects its factory, as before.
C33_TableFixed ==
    [][EventStep =>
          \A k \in 1..Len(state) :
              (k <= Len(state') /\ Kept(FromRoot(state, k), FromRoot(state', k))) =>
                  /\ FromRoot(state', k).table = FromRoot(state, k).table
                  /\ \A name \in Names(cfg) :
                         isAllowedTag(<<FromRoot(state', k)>>, name)
                             <=> isAllowedTag(<<FromRoot(state, k)>>, name)]_vars

\* A child element has been captured and closed, and the same tag name has
\* selected its factory in the group's table a second time.
C33_Witness ==
    /\ Len(state) = 2
    /\ state[2].cls \in GroupClasses
    /\ state[2].table # "none"
    /\ last.ev.type = "opentag"
    /\ last.ev.name \in TableNames(state[2].table)
    /\ last.r.ret = "transition"
    /\ produced # <<>>
    /\ produced[1].obj.k = "object"

(***************************************************************************)
(* The caller constructing the group grammar's SimpleGroupParserState,     *)
(* with or without an unexpectedTagTransitionFunction, before the          *)
(* transformer that drives it is started.                                  *)
(***************************************************************************)
GroupConfigs ==
    [driver : {"RSSParserTransformer"}, grammar : {"group"},
     policy : {"Ignore", "Error", "Parse"}]

\* Nothing has been constructed yet.
InitConstruct ==
    \E conf \in GroupConfigs :
        /\ cfg = conf
        /\ preinit = FALSE
        /\ state = <<>>
        /\ handlers = NoHandlers
        /\ emitDataHandler = TRUE
        /\ errorHandler = TRUE
        /\ emitted = <<>>
        /\ errors = <<>>
        /\ thrown = <<>>
        /\ nEv = 0
        /\ tags = <<>>
        /\ ended = FALSE
        /\ produced = <<>>
        /\ last = [ev |-> NoEvent, r |-> NoCall]
        /\ peer = <<>>

Constructed == state # <<>>

\* new SimpleGroupParserState(...): last records whether the function was
\* passed ("function") or left out ("") and what the constructor did.
ConstructGroup ==
    \E unexpected \in BOOLEAN :
        LET r == SimpleGroupParserState_constructor("g", "GroupHarnessTable",
                                                    cfg.policy, unexpected)
        IN  /\ ~Constructed
            /\ thrown = <<>>
            /\ state' = r.self
            /\ thrown' = IF r.ret = "throw" THEN <<r.err>> ELSE thrown
            /\ last' = [ev |-> Event("construct", IF unexpected THEN "function" ELSE "", <<>>),
                        r |-> r]
            /\ UNCHANGED <<cfg, tags, ended, handlers, preinit, emitDataHandler,
                           errorHandler, emitted, errors, nEv, produced, peer>>

NextConstruct ==
    \/ ConstructGroup
    \/ Constructed /\ Start
    \/ Constructed /\ OpenTag
    \/ Constructed /\ Text
    \/ Constructed /\ CloseTag

SpecConstruct == InitConstruct /\ [][NextConstruct]_vars

\* C34: constructing a SimpleGroupParserState with policy Parse and no
\* unexpected-tag function fails with an error; every constructed state with
\* policy Parse has the function, and transitionUnexpectedTag never throws
\* its "called without" error.
C34_ParseNeedsFunction ==
    /\ (last.ev.type = "construct" /\ cfg.policy = "Parse" /\ last.ev.name = "") =>
          /\ ~Constructed
          /\ thrown = <<"Error: unexpectedTagTransitionFunction cannot be undefined">>
    /\ \A k \in 1..Len(state) :
          (state[k].cls = "SimpleGroupParserState" /\ state[k].policy = "Parse") =>
              state[k].unexpected
    /\ \A k \in 1..Len(thrown) :
          thrown[k] # "Error: transitionUnexpectedTag called without"
    /\ last.r.err # "Error: transitionUnexpectedTag called without"

\* Under policy Parse an unexpected tag has been handed to the function the
\* state was constructed with.
C34_Witness ==
    /\ cfg.policy = "Parse"
    /\ last.ev.type = "opentag"
    /\ last.r = unexpectedTagTransitionFunction(last.r.self, last.ev.name)
    /\ Constructed
    /\ Head(state).cls = "SimpleTextParserState"
    /\ thrown = <<>>

EitherChannelCurrent ==
    state # <<>> /\ Head(state).cls = "Either.ChannelElementState"

\* C35 (as claimed): in the Either-based channel state an open tag named by a
\* channel data key, received while no field is being captured, sets the
\* current tag and keeps the channel state current without an error; a close
\* tag equal to the current tag clears it and keeps the channel state current;
\* any other close tag yields an RSSParserError value.
C35_EitherChannelCapture ==
    [][(EventStep /\ EitherChannelCurrent /\ last'.r.ret # "nocall") =>
          /\ (last'.ev.type = "opentag" /\ last'.ev.name \in ChannelDataKeys
                /\ Head(state).tag = "") =>
                /\ last'.r.ret = "left"
                /\ last'.r.err = "none"
                /\ state' = [state EXCEPT ![1].tag = last'.ev.name]
          /\ (last'.ev.type = "closetag" /\ Head(state).tag # ""
                /\ last'.ev.name = Head(state).tag) =>
                /\ last'.r.ret = "left"
                /\ state' = [state EXCEPT ![1].tag = ""]
          /\ (last'.ev.type = "closetag" /\ last'.ev.name # Head(state).tag) =>
                /\ last'.r.ret = "right"
                /\ last'.r.err = "RSSParserError"
                /\ state' = state]_vars

====
